---- MODULE Spec2Model ----
(***************************************************************************)
(* Arch-I-Tect backend: upload, background preprocessing, and the          *)
(* generation pipeline (routes.py, image_processor.py, iac_generator.py,   *)
(* llm_interface.py, validators.py, formatters.py).                        *)
(*                                                                         *)
(* Text is modelled as a sequence of tokens and stands for their           *)
(* concatenation; no keyword the code searches for straddles two tokens.   *)
(* A filename is a sequence of one-character strings.  A stored file is a  *)
(* record                                                                  *)
(* [path, data], its path the pair <<image id, name after the "_">> that   *)
(* stands for uploads/<id>_<name>.  A write succeeds unless the name of    *)
(* the file is longer than the filesystem stores (NAME_MAX), and a         *)
(* generated id is fresh.                                                  *)
(***************************************************************************)
EXTENDS Integers, Sequences, FiniteSets, TLC

VARIABLES
    files,          \* the upload directory: set of [path, data]
    tasks,          \* background preprocessing tasks: set of [path, id, pc, truncated]
    nextId,         \* the next identifier uuid4 hands out
    uploaded,       \* identifiers returned by /upload, with the sanitized filename
    debug,          \* Python's __debug__: FALSE when run with -O (asserts stripped)
    req,            \* the /generate request in flight (or the last one finished),
                    \* with the HTTP response it was answered with
    resp,           \* the last HTTP response of /upload, /status or /preview
    call            \* the last call of a function taken on its own: its arguments
                    \* and what it returned or raised

vars == <<files, tasks, nextId, uploaded, debug, req, resp, call>>

----------------------------------------------------------------------------
(* Bounds of the model *)

MaxUploads == 2         \* accepted uploads, in the upload/preprocessing specification
MaxImages == 1          \* accepted uploads, in the pipeline specification
MaxBody == 2            \* tokens in the body of the first LLM response
MaxRefinedBody == 1     \* tokens in the body of the refined LLM response
MaxSegments == 3        \* pieces (prose, fenced blocks) of a response handed to the parser
MaxHclSegments == 4     \* pieces of the code handed to the HCL validator
MaxCfTokens == 4        \* tokens of the document handed to the YAML validator
MaxPostLines == 3       \* lines of the code handed to the post-processor
MaxFormatLines == 4     \* lines of the code handed to a re-indentation pass
MaxFirstSegments == 2   \* pieces of the first response of a generation

----------------------------------------------------------------------------
(* Sequence helpers *)

Range(s) == {s[i] : i \in 1..Len(s)}

RECURSIVE Count(_, _)
Count(s, x) ==
    IF s = <<>> THEN 0
    ELSE (IF Head(s) = x THEN 1 ELSE 0) + Count(Tail(s), x)

RECURSIVE SeqsUpTo(_, _)
SeqsUpTo(S, n) ==
    IF n = 0 THEN {<<>>}
    ELSE LET shorter == SeqsUpTo(S, n - 1)
         IN  shorter \cup {Append(s, x) : s \in {t \in shorter : Len(t) = n - 1}, x \in S}

\* index of the last occurrence of c in s, 0 when absent (str.rfind, 1-based)
RFind(s, c) ==
    LET at == {i \in 1..Len(s) : s[i] = c}
    IN  IF at = {} THEN 0 ELSE CHOOSE i \in at : \A j \in at : j <= i

----------------------------------------------------------------------------
(* Filenames: utils/validators.py *)

UpperChars == <<"A","B","C","D","E","F","G","H","I","J","K","L","M",
                "N","O","P","Q","R","S","T","U","V","W","X","Y","Z">>
LowerChars == <<"a","b","c","d","e","f","g","h","i","j","k","l","m",
                "n","o","p","q","r","s","t","u","v","w","x","y","z">>

LowerChar(c) ==
    IF \E i \in 1..Len(UpperChars) : UpperChars[i] = c
    THEN LowerChars[CHOOSE i \in 1..Len(UpperChars) : UpperChars[i] = c]
    ELSE c

\* str.lower()
Lower(s) == [i \in 1..Len(s) |-> LowerChar(s[i])]

\* str.strip(".")
RECURSIVE StripDots(_)
StripDots(s) ==
    IF s = <<>> THEN s
    ELSE IF Head(s) = "." THEN StripDots(Tail(s))
    ELSE IF s[Len(s)] = "." THEN StripDots(SubSeq(s, 1, Len(s) - 1))
    ELSE s

\* Path(filename).name: trailing separators dropped, then the last component
RECURSIVE PathName(_)
PathName(s) ==
    IF s = <<>> THEN s
    ELSE IF s[Len(s)] = "/" THEN PathName(SubSeq(s, 1, Len(s) - 1))
    ELSE SubSeq(s, RFind(s, "/") + 1, Len(s))

\* Path(filename).suffix: from the last dot of the name, unless that dot leads or ends it
PathSuffix(s) ==
    LET name == PathName(s)
        i    == RFind(name, ".")
    IN  IF 1 < i /\ i < Len(name) THEN SubSeq(name, i, Len(name)) ELSE <<>>

\* os.path.splitext(name)[1]
SplitExt(name) ==
    LET i == RFind(name, ".")
    IN  IF i > 1 THEN SubSeq(name, i, Len(name)) ELSE <<>>

invalid_chars == {"<", ">", ":", "\"", "|", "?", "*"}

max_length == 255

sanitize_filename(filename) ==
    LET name     == PathName(filename)
        replaced == [i \in 1..Len(name) |->
                        IF name[i] \in invalid_chars THEN "_" ELSE name[i]]
        ext      == SplitExt(replaced)
        stem     == SubSeq(replaced, 1, Len(replaced) - Len(ext))
    IN  IF Len(replaced) > max_length
        THEN SubSeq(stem, 1, max_length - Len(ext)) \o ext
        ELSE replaced

\* os.getenv("ALLOWED_IMAGE_TYPES", "png,jpg,jpeg,webp").split(",")
allowed_types == {<<"p","n","g">>, <<"j","p","g">>, <<"j","p","e","g">>, <<"w","e","b","p">>}

file_ext(filename) == StripDots(Lower(PathSuffix(filename)))

\* the name preprocess_image gives the processed copy, after the "<id>_"
ProcessedName == <<"p","r","o","c","e","s","s","e","d",".","p","n","g">>

\* a name of 219 characters with an allowed extension
LongName == [i \in 1..215 |-> "a"] \o <<".","p","n","g">>

\* the filenames uploads carry
Filenames ==
    { <<"a",".","p","n","g">>,
      ProcessedName,
      LongName,
      <<"d","/","b","?",".","P","N","G">>,
      <<"a",".","g","i","f">>,
      <<"a">> }

\* file_ext and sanitize_filename of each of them, computed once
FileExtOf == [fn \in Filenames |-> file_ext(fn)]
SafeNameOf == [fn \in Filenames |-> sanitize_filename(fn)]

\* int(os.getenv("MAX_IMAGE_SIZE_MB", "10"))
max_size_mb == 10
BytesPerMB == 1048576
min_dimension == 100
max_dimension == 4096

\* validate_image_file with the minimum checked on the width alone
validate_image_file_width_only(content, filename) ==
    IF content.size > max_size_mb * BytesPerMB THEN "File size exceeds maximum"
    ELSE IF FileExtOf[filename] \notin allowed_types THEN "File type not allowed"
    ELSE IF ~content.decodable THEN "Invalid image file or corrupted content"
    ELSE IF content.width < min_dimension
         THEN "Image too small"
    ELSE IF content.width > max_dimension \/ content.height > max_dimension
         THEN "Image too large"
    ELSE "ok"

\* validate_image_file: the error message, or "ok".  file_size_mb > max_size_mb with
\* file_size_mb = len / (1024 * 1024) is the integer comparison len > max * 1024 * 1024.
validate_image_file(content, filename) ==
    IF content.size > max_size_mb * BytesPerMB THEN "File size exceeds maximum"
    ELSE IF FileExtOf[filename] \notin allowed_types THEN "File type not allowed"
    ELSE IF ~content.decodable THEN "Invalid image file or corrupted content"
    ELSE IF content.width < min_dimension \/ content.height < min_dimension
         THEN "Image too small"
    ELSE IF content.width > max_dimension \/ content.height > max_dimension
         THEN "Image too large"
    ELSE "ok"

----------------------------------------------------------------------------
(* Upload inputs *)

Sizes == {max_size_mb * BytesPerMB, max_size_mb * BytesPerMB + 1}
Dimensions == {min_dimension - 1, min_dimension, max_dimension, max_dimension + 1}

\* An uploaded body: its length, whether PIL identifies it (Image.open reads the header
\* only), whether the pixel data behind the header is cut short, and the header's size.
Contents ==
    [size : Sizes, decodable : {TRUE}, truncated : BOOLEAN,
     width : Dimensions, height : Dimensions]
    \cup [size : Sizes, decodable : {FALSE}, truncated : {FALSE}, width : {0}, height : {0}]

----------------------------------------------------------------------------
(* LLM response text *)

\* the three-backquote fence of a markdown code block
Fence == "<fence>"
NL == "\n"
Quote == "\""

CodeTokens == {"resource", "{", Quote, "AWSTemplateFormatVersion:", "Resources:"}

Fenced(body) == <<Fence, NL>> \o body \o <<NL, Fence>>

\* what a provider may answer: any body, bare or inside one fenced block (also "")
ResponsesUpTo(n) ==
    SeqsUpTo(CodeTokens, n) \cup {Fenced(b) : b \in SeqsUpTo(CodeTokens, n)}

Responses == ResponsesUpTo(MaxBody)
RefinedResponses == ResponsesUpTo(MaxRefinedBody)

\* the members of a keyword list that occur in a token (kw in tok)
KeywordsIn(tok) ==
    CASE tok = "AWSTemplateFormatVersion:" -> {"AWSTemplateFormatVersion"}
      [] tok = "AWSTemplateFormatVersion"  -> {"AWSTemplateFormatVersion"}
      [] tok = "Resources:"                -> {"Resources"}
      [] tok = "resource"                  -> {"resource"}
      [] tok = Fence                       -> {Fence}
      [] OTHER                             -> {}

\* the same for the lower-cased token (kw in tok.lower()): "resources:" holds "resource"
KeywordsInLower(tok) ==
    CASE tok = "Resources:" -> {"resource"}
      [] tok = "resource"   -> {"resource"}
      [] tok = Fence        -> {Fence}
      [] OTHER              -> {}

\* kw in text
Occurs(kw, text) == \E i \in 1..Len(text) : kw \in KeywordsIn(text[i])

\* kw in text.lower()
OccursLower(kw, text) == \E i \in 1..Len(text) : kw \in KeywordsInLower(text[i])

Space == " "
CR == "\r"
Whitespace == {NL, Space, CR}

\* str.strip() on text: leading and trailing whitespace goes
RECURSIVE Strip(_)
Strip(text) ==
    IF text = <<>> THEN text
    ELSE IF Head(text) \in Whitespace THEN Strip(Tail(text))
    ELSE IF text[Len(text)] \in Whitespace THEN Strip(SubSeq(text, 1, Len(text) - 1))
    ELSE text

----------------------------------------------------------------------------
(* Response parser: models/llm_interface.py *)

LangHints == {"hcl", "terraform", "yaml", "json"}

\* the fence at i opens a block: the fence, an optional language hint (when the
\* pattern admits one), then a newline
OpensAt(text, i, hinted) ==
    /\ i + 1 <= Len(text)
    /\ text[i] = Fence
    /\ \/ text[i + 1] = NL
       \/ hinted /\ i + 2 <= Len(text) /\ text[i + 1] \in LangHints /\ text[i + 2] = NL

BodyStart(text, i) == IF text[i + 1] = NL THEN i + 2 ELSE i + 3

\* (.*?) followed by the fence: the block ends at the first fence at or after its start
Closes(text, i) == {j \in BodyStart(text, i)..Len(text) : text[j] = Fence}

Matches(text, hinted) ==
    {i \in 1..Len(text) : OpensAt(text, i, hinted) /\ Closes(text, i) # {}}

Min(S) == CHOOSE x \in S : \A y \in S : x <= y

\* FirstBlock without the strip() of the match
FirstBlock_unstripped(text, hinted) ==
    LET i == Min(Matches(text, hinted))
        j == Min(Closes(text, i))
    IN  SubSeq(text, BodyStart(text, i), j - 1)

\* re.findall(pattern, response, re.DOTALL)[0].strip(), "" when nothing matches
FirstBlock(text, hinted) ==
    LET i == Min(Matches(text, hinted))
        j == Min(Closes(text, i))
    IN  Strip(SubSeq(text, BodyStart(text, i), j - 1))

\* the "code" entry of _parse_architecture_response
ParseCode(response) ==
    IF Matches(response, TRUE) # {} THEN FirstBlock(response, TRUE)
    ELSE IF Matches(response, FALSE) # {} THEN FirstBlock(response, FALSE)
    ELSE <<>>

\* re.sub of the fence-to-next-fence pattern by "": every span from a fence to the
\* next fence goes, scanning left to right; a fence without a later one stays
RECURSIVE RemoveFenced(_)
RemoveFenced(text) ==
    LET opens == {i \in 1..Len(text) : text[i] = Fence}
    IN  IF opens = {} THEN text
        ELSE LET i      == Min(opens)
                 closes == {j \in (i + 1)..Len(text) : text[j] = Fence}
             IN  IF closes = {} THEN text
                 ELSE SubSeq(text, 1, i - 1)
                        \o RemoveFenced(SubSeq(text, Min(closes) + 1, Len(text)))

\* the "explanation" entry of _parse_architecture_response
ParseExplanation(response) == Strip(RemoveFenced(response))

\* the alternatives of resource_pattern
resource_names ==
    {"EC2", "S3", "RDS", "Lambda", "VPC", "ALB", "ELB", "DynamoDB", "SNS", "SQS",
     "CloudFront", "Route53"}

\* str.lower() of a word, for the words of the model
LowerWord(w) ==
    CASE w = "EC2" -> "ec2"       [] w = "S3" -> "s3"   [] w = "RDS" -> "rds"
      [] w = "Lambda" -> "lambda" [] w = "VPC" -> "vpc" [] w = "ALB" -> "alb"
      [] w = "ELB" -> "elb"       [] w = "DynamoDB" -> "dynamodb"
      [] w = "SNS" -> "sns"       [] w = "SQS" -> "sqs"
      [] w = "CloudFront" -> "cloudfront" [] w = "Route53" -> "route53"
      [] w = "LAMBDA" -> "lambda" [] w = "OpenAI" -> "openai"
      [] w = "TERRAFORM" -> "terraform"
      [] OTHER -> w

\* the tokens made of characters other than word characters: a word boundary lies
\* between a word and any of them, and at both ends of the text
NonWord == {Fence, NL, Space, Quote, "{", "}", "="}

\* re.IGNORECASE: the token is one of the alternatives in some casing
IsResourceWord(tok) == \E n \in resource_names : LowerWord(n) = LowerWord(tok)

\* the word boundaries on both sides of the token at i
Bounded(text, i) ==
    /\ i = 1 \/ text[i - 1] \in NonWord
    /\ i = Len(text) \/ text[i + 1] \in NonWord

\* the "detected_resources" entry: list(set(re.findall(...))), the matched text as
\* it stands in the response; the order of the list is that of a set
ParseResources(response) ==
    {response[i] : i \in {k \in 1..Len(response) :
                              IsResourceWord(response[k]) /\ Bounded(response, k)}}

\* _parse_architecture_response(response, output_format)
parse_architecture_response(response, output_format) ==
    [code |-> ParseCode(response),
     explanation |-> ParseExplanation(response),
     detected_resources |-> ParseResources(response),
     format |-> output_format,
     raw_response |-> response]

----------------------------------------------------------------------------
(* Validation run by the pipeline: utils/validators.py *)

terraform_keywords == {"resource", "provider", "variable", "output"}
cf_keywords == {"AWSTemplateFormatVersion", "Resources", "Type:", "Properties:"}
ValidatorFormats == {"terraform", "cloudformation"}

Outcome(kind, msg) == [kind |-> kind, msg |-> msg]

\* validate_llm_response without its keyword checks
validate_llm_response_fence_only(response, expected_format) ==
    IF debug /\ response = <<>> THEN Outcome("raise", "Response cannot be empty")
    ELSE IF debug /\ expected_format \notin ValidatorFormats
         THEN Outcome("raise", "Invalid format")
    ELSE IF ~Occurs(Fence, response)
         THEN Outcome("fail", "Response does not contain code blocks")
    ELSE Outcome("pass", "")

\* validate_llm_response: "pass" for (True, None), "fail" for (False, msg), "raise"
\* for an AssertionError (the two asserts exist only when __debug__ holds)
validate_llm_response(response, expected_format) ==
    IF debug /\ response = <<>> THEN Outcome("raise", "Response cannot be empty")
    ELSE IF debug /\ expected_format \notin ValidatorFormats
         THEN Outcome("raise", "Invalid format")
    ELSE IF ~Occurs(Fence, response)
         THEN Outcome("fail", "Response does not contain code blocks")
    ELSE IF /\ expected_format = "terraform"
            /\ ~\E k \in terraform_keywords : OccursLower(k, response)
         THEN Outcome("fail", "Response does not appear to contain valid Terraform code")
    ELSE IF /\ expected_format = "cloudformation"
            /\ ~\E k \in cf_keywords : Occurs(k, response)
         THEN Outcome("fail", "Response does not appear to contain valid CloudFormation code")
    ELSE Outcome("pass", "")

----------------------------------------------------------------------------
(* Format-specific syntax checks: utils/formatters.py (CodeFormatter) *)

\* validate_terraform_syntax: open_braces != close_braces
UnbalancedBraces(code) == Count(code, "{") # Count(code, "}")

\* a backslash followed by a quote, the one token that holds a backslash
EscQuote == "\\\""

\* validate_terraform_syntax: quote_count % 2 != 0, with quote_count the quotes less
\* the escaped quotes: code.count of the quote counts Quote and EscQuote tokens,
\* code.count of the escaped quote counts the EscQuote tokens
UnclosedQuotes(code) ==
    ((Count(code, Quote) + Count(code, EscQuote)) - Count(code, EscQuote)) % 2 # 0

\* the tokens in which 'resource', 'data' or 'module' occurs
BlockWords == {"resource", "data", "module"}

\* tokens made of the characters of [\w-]
NameTokens == {"resource", "data", "module", "x", "y", "a", "1"}

\* the index of the first token at or after i that is not in S (Len + 1 if none)
RECURSIVE SkipAll(_, _, _)
SkipAll(code, i, S) ==
    IF i > Len(code) \/ code[i] \notin S THEN i ELSE SkipAll(code, i + 1, S)

\* \s+"[\w-]+" matched from i: the index after the closing quote, 0 if no match
QuotedNameAt(code, i) ==
    LET q1 == SkipAll(code, i, Whitespace)
        n  == q1 + 1
        q2 == SkipAll(code, n, NameTokens)
    IN  IF /\ q1 > i /\ q1 <= Len(code) /\ code[q1] = Quote
           /\ q2 > n /\ q2 <= Len(code) /\ code[q2] = Quote
        THEN q2 + 1 ELSE 0

\* re.search(resource_pattern, code): resource, then two quoted names, each after
\* whitespace
HasResourceDeclaration(code) ==
    \E i \in 1..Len(code) :
        /\ code[i] = "resource"
        /\ QuotedNameAt(code, i + 1) # 0
        /\ QuotedNameAt(code, QuotedNameAt(code, i + 1)) # 0

\* validate_terraform_syntax with the brace count taken after the keyword check
validate_terraform_syntax_keywords_first(code) ==
    IF Range(code) \cap BlockWords = {}
    THEN Outcome("fail", "No resources, data sources, or modules defined")
    ELSE IF UnbalancedBraces(code) THEN Outcome("fail", "Unbalanced braces")
    ELSE IF "resource" \in Range(code) /\ ~HasResourceDeclaration(code)
    THEN Outcome("fail", "Invalid resource declaration syntax")
    ELSE IF UnclosedQuotes(code) THEN Outcome("fail", "Unclosed quotes detected")
    ELSE Outcome("pass", "")

\* CodeFormatter.validate_terraform_syntax: "pass" for (True, None), "fail" with the
\* reason (the counts that follow "Unbalanced braces" are left out)
validate_terraform_syntax(code) ==
    IF UnbalancedBraces(code) THEN Outcome("fail", "Unbalanced braces")
    ELSE IF Range(code) \cap BlockWords = {}
    THEN Outcome("fail", "No resources, data sources, or modules defined")
    ELSE IF "resource" \in Range(code) /\ ~HasResourceDeclaration(code)
    THEN Outcome("fail", "Invalid resource declaration syntax")
    ELSE IF UnclosedQuotes(code) THEN Outcome("fail", "Unclosed quotes detected")
    ELSE Outcome("pass", "")

required_keys == {"AWSTemplateFormatVersion", "Resources"}

\* validate_cloudformation_syntax without the check of how the template starts
validate_cloudformation_syntax_keys_only(code) ==
    IF ~Occurs("AWSTemplateFormatVersion", code)
    THEN "Missing required key: AWSTemplateFormatVersion"
    ELSE IF ~Occurs("Resources", code) THEN "Missing required key: Resources"
    ELSE "ok"

\* validate_cloudformation_syntax: "ok" or the reason of the failure; the keys are
\* looked for in the order of the list, and the indentation check only logs
validate_cloudformation_syntax(code) ==
    IF ~Occurs("AWSTemplateFormatVersion", code)
    THEN "Missing required key: AWSTemplateFormatVersion"
    ELSE IF ~Occurs("Resources", code) THEN "Missing required key: Resources"
    ELSE IF Strip(code) = <<>> \/ Head(Strip(code)) # "AWSTemplateFormatVersion:"
         THEN "Template must start with AWSTemplateFormatVersion"
    ELSE "ok"

----------------------------------------------------------------------------
(* The upload directory *)

NoPath == <<0, <<>>>>
NoData == [kind |-> "none", of |-> 0, truncated |-> FALSE]

PathOf(image_id, name) == <<image_id, name>>

\* identifiers are numbered: n >= 1 is the n-th value of str(uuid.uuid4()); StarId is
\* the identifier string "*" a request can put in the place of one
StarId == -1

\* upload_dir.glob(f"{image_id}_*"): for an identifier without pattern characters
\* the files whose name starts with it; for "*" the pattern is "*_*", which every
\* stored name matches
Glob(image_id) ==
    IF image_id = StarId THEN files ELSE {f \in files : f.path[1] = image_id}

Exists(path) == \E f \in files : f.path = path

Read(path) == (CHOOSE f \in files : f.path = path).data

\* open(path, "wb") and write: creates the file or replaces its bytes
Write(path, data) == {f \in files : f.path # path} \cup {[path |-> path, data |-> data]}

\* len(str(uuid.uuid4()))
UuidLen == 36

\* the longest path component the filesystem under uploads/ stores
NAME_MAX == 255

\* open(file_path, "wb") succeeds: the component <image_id>_<name> is not too long
\* (otherwise OSError, ENAMETOOLONG)
Writable(name) == UuidLen + 1 + Len(name) <= NAME_MAX

\* PIL can open and fully load these bytes
Loadable(data) == data.kind \in {"original", "processed"} /\ ~data.truncated

----------------------------------------------------------------------------
(* HTTP responses *)

NoResp == [op |-> "none", status |-> 0, detail |-> <<>>, image_id |-> 0, served |-> NoPath]

Resp(op, status, detail, image_id, served) ==
    [op |-> op, status |-> status, detail |-> detail, image_id |-> image_id, served |-> served]

----------------------------------------------------------------------------
(* POST /upload: api/routes.py upload_image *)

\* validation fails: HTTPException(400, error_message), nothing else happens
UploadRejected(error_message) ==
    /\ resp' = Resp("upload", 400, <<error_message>>, 0, NoPath)
    /\ UNCHANGED <<files, tasks, nextId, uploaded>>

\* UploadAccepted with one identifier for every request
UploadAccepted_same_id(content, filename) ==
    LET image_id      == 1
        safe_filename == SafeNameOf[filename]
        file_path     == PathOf(image_id, safe_filename)
    IN  /\ files' = Write(file_path,
                [kind |-> "original", of |-> image_id, truncated |-> content.truncated])
        /\ tasks' = tasks \cup {[path |-> file_path, id |-> image_id, pc |-> "queued"]}
        /\ uploaded' = uploaded \cup {[id |-> image_id, name |-> safe_filename]}
        /\ nextId' = nextId + 1
        /\ resp' = Resp("upload", 200, <<"uploaded">>, image_id, file_path)

\* the file is saved as <image_id>_<safe_filename> and preprocessing is scheduled
UploadAccepted(content, filename) ==
    LET image_id      == nextId
        safe_filename == SafeNameOf[filename]
        file_path     == PathOf(image_id, safe_filename)
    IN  /\ files' = Write(file_path,
                [kind |-> "original", of |-> image_id, truncated |-> content.truncated])
        /\ tasks' = tasks \cup {[path |-> file_path, id |-> image_id, pc |-> "queued"]}
        /\ uploaded' = uploaded \cup {[id |-> image_id, name |-> safe_filename]}
        /\ nextId' = nextId + 1
        /\ resp' = Resp("upload", 200, <<"uploaded">>, image_id, file_path)

\* open or write raises: HTTPException(500, "Failed to save file"); the identifier
\* drawn for the request is dropped with it
UploadNotSaved ==
    /\ resp' = Resp("upload", 500, <<"Failed to save file">>, 0, NoPath)
    /\ UNCHANGED <<files, tasks, nextId, uploaded>>

Upload(content, filename) ==
    LET error_message == validate_image_file(content, filename)
    IN  /\ IF error_message # "ok"
           THEN UploadRejected(error_message)
           ELSE IF ~Writable(SafeNameOf[filename])
           THEN UploadNotSaved
           ELSE UploadAccepted(content, filename)
        /\ UNCHANGED <<debug, call, req>>

----------------------------------------------------------------------------
(* Background task: services/image_processor.py preprocess_image *)

\* Image.open, convert, resize, enhance: the pixel data is loaded; a body cut short
\* raises and the task ends with nothing written
PreprocessFails(t) ==
    /\ t.pc = "queued"
    /\ ~Loadable(Read(t.path))
    /\ tasks' = tasks \ {t}
    /\ UNCHANGED <<files, nextId, uploaded, debug, call, req, resp>>

\* img.save(processed_path) opens <id>_processed.png for writing ...
PreprocessOpen(t) ==
    /\ t.pc = "queued"
    /\ Loadable(Read(t.path))
    /\ files' = Write(PathOf(t.id, ProcessedName),
            [kind |-> "partial", of |-> t.id, truncated |-> FALSE])
    /\ tasks' = (tasks \ {t}) \cup {[t EXCEPT !.pc = "saving"]}
    /\ UNCHANGED <<nextId, uploaded, debug, call, req, resp>>

\* ... and writes the processed PNG into it
PreprocessSave(t) ==
    /\ t.pc = "saving"
    /\ files' = Write(PathOf(t.id, ProcessedName),
            [kind |-> "processed", of |-> t.id, truncated |-> FALSE])
    /\ tasks' = tasks \ {t}
    /\ UNCHANGED <<nextId, uploaded, debug, call, req, resp>>

----------------------------------------------------------------------------
(* GET /status/{image_id} and GET /preview/{image_id}: api/routes.py *)

Status(image_id) ==
    /\ resp' = IF Glob(image_id) = {}
               THEN Resp("status", 404, <<"not found">>, image_id, NoPath)
               ELSE IF Exists(PathOf(image_id, ProcessedName))
               THEN Resp("status", 200, <<"processed">>, image_id, NoPath)
               ELSE Resp("status", 200, <<"processing">>, image_id, NoPath)
    /\ UNCHANGED <<files, tasks, nextId, uploaded, debug, call, req>>

\* image_files[0] is whichever match the directory scan lists first
Preview(image_id) ==
    /\ \/ /\ Glob(image_id) = {}
          /\ resp' = Resp("preview", 404, <<"not found">>, image_id, NoPath)
       \/ \E f \in Glob(image_id) :
             resp' = Resp("preview", 200, <<"file">>, image_id,
                          IF Exists(PathOf(image_id, ProcessedName))
                          THEN PathOf(image_id, ProcessedName) ELSE f.path)
    /\ UNCHANGED <<files, tasks, nextId, uploaded, debug, call, req>>

----------------------------------------------------------------------------
(* POST /generate: api/routes.py generate_code and                         *)
(* services/iac_generator.py generate_from_image                           *)

OutputFormats == {"terraform", "cloudformation", "pulumi"}
NoResponse == <<"<none>">>
NoFault == [class |-> "none", text |-> ""]

IdleReq ==
    [pc |-> "idle", id |-> 0, fmt |-> "", path |-> NoPath, probes |-> 0, gens |-> 0,
     sent |-> NoData, first |-> NoResponse, validation |-> "none", fault |-> NoFault,
     status |-> 0, detail |-> <<>>]

NewReq(image_id, fmt) == [IdleReq EXCEPT !.id = image_id, !.fmt = fmt]

\* generate_code without its format check
RouteFormatUnchecked(output_format) == TRUE

\* the format check of generate_code
RouteFormatOk(output_format) == output_format \in {"terraform", "cloudformation"}

\* the second assert of generate_from_image
PipelineFormatOk(output_format) == output_format \in {"terraform", "cloudformation"}

\* raise HTTPException(status_code, detail) before the pipeline is entered
Reject(r, status, text) ==
    [r EXCEPT !.pc = "done", !.status = status, !.detail = <<text>>,
              !.fault = [class |-> "input", text |-> text]]

\* an exception of the given type leaves generate_from_image and reaches the handlers
\* of generate_code: ValueError -> 400 with str(e), anything else -> 500, fixed text
RouteCatches(r, type, msg, fault) ==
    [r EXCEPT !.pc = "done", !.fault = fault,
              !.status = IF type = "ValueError" THEN 400 ELSE 500,
              !.detail = IF type = "ValueError" THEN msg
                         ELSE <<"Failed to generate code. Please try again.">>]

\* an exception raised inside the try block of generate_from_image: the except clause
\* re-raises it as ValueError("Failed to generate Infrastructure as Code: " + str(e))
PipelineRaises(r, class, text) ==
    RouteCatches(r, "ValueError",
                 <<"Failed to generate Infrastructure as Code: ", text>>,
                 [class |-> class, text |-> text])

\* generate_code up to the first suspension: lookup, format check, the asserts of
\* generate_from_image, and the availability probe being issued
GenStart(image_id, output_format) ==
    /\ req.pc \in {"idle", "done"}
    /\ \/ /\ Glob(image_id) = {}
          /\ req' = Reject(NewReq(image_id, output_format), 404, "Image not found")
       \/ \E f \in Glob(image_id) :
             LET r == [NewReq(image_id, output_format) EXCEPT !.path = f.path]
             IN  req' =
                   IF ~RouteFormatOk(output_format)
                   THEN Reject(r, 400, "Invalid output format")
                   ELSE IF debug /\ ~(Exists(f.path) /\ PipelineFormatOk(output_format))
                   THEN RouteCatches(r, "AssertionError", <<"Invalid format">>,
                                     [class |-> "internal", text |-> "Invalid format"])
                   ELSE [r EXCEPT !.pc = "probing", !.probes = 1]
    /\ UNCHANGED <<files, tasks, nextId, uploaded, debug, call, resp>>

\* GenProbed with the first generate call issued before the two answers are looked at
GenProbed_generate_first(available, supportsImages) ==
    /\ req.pc = "probing"
    /\ req' =
         IF ~available
         THEN PipelineRaises([req EXCEPT !.gens = 1], "unavailable",
                             "LLM service is not available")
         ELSE IF ~supportsImages
         THEN PipelineRaises([req EXCEPT !.gens = 1], "no_images",
                             "provider does not support image analysis")
         ELSE IF ~Loadable(Read(req.path))
         THEN PipelineRaises(req, "internal", "cannot identify image file")
         ELSE [req EXCEPT !.pc = "generating", !.gens = 1, !.sent = Read(req.path)]
    /\ UNCHANGED <<files, tasks, nextId, uploaded, debug, call, resp>>

\* is_available() has answered and supports_images() is asked (its answer is fixed by
\* the configured model name); then analyze_architecture_diagram reads the file at
\* image_path (prepare_for_llm) and issues the first generate call
GenProbed(available, supportsImages) ==
    /\ req.pc = "probing"
    /\ req' =
         IF ~available
         THEN PipelineRaises(req, "unavailable", "LLM service is not available")
         ELSE IF ~supportsImages
         THEN PipelineRaises(req, "no_images", "provider does not support image analysis")
         ELSE IF ~Loadable(Read(req.path))
         THEN PipelineRaises(req, "internal", "cannot identify image file")
         ELSE [req EXCEPT !.pc = "generating", !.gens = 1, !.sent = Read(req.path)]
    /\ UNCHANGED <<files, tasks, nextId, uploaded, debug, call, resp>>

ProviderFailures ==
    {"request timed out", "authentication failed", "failed to connect", "status 500"}

\* a generate call ends with the provider client's ValueError; the first result, if
\* any, is lost with the frame
GenFailed(text) ==
    /\ req.pc \in {"generating", "refining"}
    /\ req' = PipelineRaises([req EXCEPT !.first = NoResponse], "provider", text)
    /\ UNCHANGED <<files, tasks, nextId, uploaded, debug, call, resp>>

\* the result is returned: 200
Succeed(r) == [r EXCEPT !.pc = "done", !.status = 200, !.detail = <<"code">>]

\* the first generate call answers: parse, validate, and refine when invalid
GenFirst(response) ==
    /\ req.pc = "generating"
    /\ LET v == validate_llm_response(response, req.fmt)
           r == [req EXCEPT !.first = response, !.validation = v.kind]
       IN  req' =
             IF v.kind = "raise" THEN PipelineRaises(r, "internal", v.msg)
             ELSE IF v.kind = "fail" THEN [r EXCEPT !.pc = "refining", !.gens = 2]
             ELSE Succeed(r)
    /\ UNCHANGED <<files, tasks, nextId, uploaded, debug, call, resp>>

\* the refinement call answers: the refined response is parsed, not validated, and
\* its parse replaces the first result
GenRefined(response) ==
    /\ req.pc = "refining"
    /\ req' = Succeed([req EXCEPT !.first = NoResponse])
    /\ UNCHANGED <<files, tasks, nextId, uploaded, debug, call, resp>>

----------------------------------------------------------------------------
(* Specifications *)

NoCall == [op |-> "none"]

Init ==
    /\ files = {}
    /\ tasks = {}
    /\ nextId = 1
    /\ uploaded = {}
    /\ debug \in BOOLEAN
    /\ req = IdleReq
    /\ resp = NoResp
    /\ call = NoCall

Background ==
    \E t \in tasks : PreprocessFails(t) \/ PreprocessOpen(t) \/ PreprocessSave(t)

\* the uploads the pipeline specification draws from
PipelineFilenames == {ProcessedName, <<"d","/","b","?",".","P","N","G">>, <<"a",".","g","i","f">>}
PipelineContents ==
    [size : {max_size_mb * BytesPerMB}, decodable : {TRUE}, truncated : {FALSE},
     width : {min_dimension}, height : {max_dimension}]

\* the generation pipeline with uploads and preprocessing running beside it
Next ==
    \/ \E c \in PipelineContents, fn \in PipelineFilenames :
          nextId <= MaxImages /\ Upload(c, fn)
    \/ Background
    \/ \E i \in 1..MaxImages, fmt \in OutputFormats : GenStart(i, fmt)
    \/ \E a \in BOOLEAN, s \in BOOLEAN : GenProbed(a, s)
    \/ \E text \in ProviderFailures : GenFailed(text)
    \/ \E response \in Responses : GenFirst(response)
    \/ \E response \in RefinedResponses : GenRefined(response)

Spec == Init /\ [][Next]_vars

\* uploads of every kind, one after the other
NextValidate ==
    \E c \in Contents, fn \in Filenames : nextId <= MaxUploads /\ Upload(c, fn)

SpecValidate == Init /\ [][NextValidate]_vars

\* uploads of every kind, preprocessing, and the lookups of /status and /preview
NextUpload ==
    \/ \E c \in Contents, fn \in Filenames : nextId <= MaxUploads /\ Upload(c, fn)
    \/ Background
    \/ \E i \in 1..MaxUploads : Status(i)
    \/ \E i \in 1..MaxUploads : Preview(i)

SpecUpload == Init /\ [][NextUpload]_vars

\* responses handed to the parser: up to MaxSegments pieces, each a piece of prose,
\* a fenced block (untagged, tagged hcl or tagged python) or a lone fence
ProseSegments == {<<"x">>, <<Space>>, <<NL>>, <<"S3">>, <<"s3">>}
BlockBodies == {<<"a">>, <<NL, "b", Space, NL>>}
BlockTags == {<<>>, <<"hcl">>, <<"python">>}
BlockSegments == {<<Fence>> \o tag \o <<NL>> \o body \o <<Fence>> :
                     tag \in BlockTags, body \in BlockBodies}
Segments == ProseSegments \cup BlockSegments \cup {<<Fence>>}

RECURSIVE Concat(_)
Concat(ss) == IF ss = <<>> THEN <<>> ELSE Head(ss) \o Concat(Tail(ss))

ParserInputs == {Concat(ss) : ss \in SeqsUpTo(Segments, MaxSegments)}

\* one call of the parser
Parse(response, output_format) ==
    /\ call' = [op |-> "parse", input |-> response,
                result |-> parse_architecture_response(response, output_format)]
    /\ UNCHANGED <<files, tasks, nextId, uploaded, debug, req, resp>>

\* the functions taken on their own keep no state: a behaviour holds one call
NextParse ==
    /\ call = NoCall
    /\ \E response \in ParserInputs, fmt \in {"terraform"} : Parse(response, fmt)

SpecParse == Init /\ [][NextParse]_vars

\* code handed to the HCL validator: up to MaxHclSegments pieces
ResourceHeader == <<"resource", Space, Quote, "x", Quote, Space, Quote, "y", Quote, Space>>
AssignmentLines == <<NL, Space, "a", Space, "=", Space, "1", NL>>
HclSegments ==
    {ResourceHeader, <<"resource", Space, "x", Space>>, <<"data", Space>>,
     <<"{">>, <<"}">>, AssignmentLines, <<Quote>>, <<EscQuote>>}
HclInputs == {Concat(ss) : ss \in SeqsUpTo(HclSegments, MaxHclSegments)}

\* one call of the HCL validator
ValidateTerraform(code) ==
    /\ call' = [op |-> "validate_terraform_syntax", input |-> code,
                result |-> validate_terraform_syntax(code)]
    /\ UNCHANGED <<files, tasks, nextId, uploaded, debug, req, resp>>

NextHcl ==
    /\ call = NoCall
    /\ \E code \in HclInputs : ValidateTerraform(code)

SpecHcl == Init /\ [][NextHcl]_vars

\* documents handed to the YAML validator
CfTokens == {"AWSTemplateFormatVersion:", "AWSTemplateFormatVersion", "Resources:",
             NL, Space, "x"}
CfInputs == SeqsUpTo(CfTokens, MaxCfTokens)

\* one call of the YAML validator
ValidateCloudFormation(code) ==
    /\ call' = [op |-> "validate_cloudformation_syntax", input |-> code,
                result |-> validate_cloudformation_syntax(code)]
    /\ UNCHANGED <<files, tasks, nextId, uploaded, debug, req, resp>>

NextCf ==
    /\ call = NoCall
    /\ \E code \in CfInputs : ValidateCloudFormation(code)

SpecCf == Init /\ [][NextCf]_vars

----------------------------------------------------------------------------
(* Provider clients: models/ollama_client.py, models/api_client.py generate *)

Providers == {"ollama", "openai", "anthropic"}

\* what the HTTP layer hands back for one request: a timeout, a transport error with
\* its text, or a response with a status and a body; a body is JSON or not, and a
\* JSON body is a completion (with status 200), an error object with a message
\* (with another status), or an empty object
HttpBodies ==
    {[json |-> TRUE,  shape |-> "completion", text |-> "generated text"],
     [json |-> TRUE,  shape |-> "error",      text |-> "invalid api key"],
     [json |-> TRUE,  shape |-> "empty",      text |-> ""],
     [json |-> FALSE, shape |-> "text",       text |-> "Bad Gateway"]}
HttpStatuses == {200, 401, 429, 500, 502}
NoBody == [json |-> FALSE, shape |-> "none", text |-> ""]
HttpOutcomes ==
    {[kind |-> "timeout", status |-> 0, body |-> NoBody, text |-> ""],
     [kind |-> "transport", status |-> 0, body |-> NoBody, text |-> "connection refused"]}
    \cup {o \in {[kind |-> "response", status |-> st, body |-> b, text |-> ""] :
                     st \in HttpStatuses, b \in HttpBodies} :
              /\ o.body.shape = "completion" => o.status = 200
              /\ o.body.shape = "error" => o.status # 200}

Returned(content) == [kind |-> "returned", type |-> "LLMResponse", content |-> content,
                      msg |-> <<>>]
Raised(type, msg) == [kind |-> "raised", type |-> type, content |-> "", msg |-> msg]

\* the except clauses of generate: every exception leaving the try block, the
\* ValueError raised for a bad status included, is raised anew as a ValueError
\* whose message is the client's prefix and str(e)
WrappedBy(provider, msg) ==
    Raised("ValueError",
           <<CASE provider = "ollama" -> "Ollama generation failed: "
               [] provider = "openai" -> "OpenAI generation failed: "
               [] provider = "anthropic" -> "Anthropic generation failed: ">> \o msg)

\* response.json() of a body that is not JSON raises json.JSONDecodeError
JsonDecodeError == <<"Expecting value: line 1 column 1 (char 0)">>

\* error_data.get('error', {}).get('message', 'Unknown error')
ErrorMessageOf(body) == IF body.shape = "error" THEN body.text ELSE "Unknown error"

\* the body of the try block of OllamaClient.generate once the response is in
OllamaHandles(o) ==
    IF o.status # 200
    THEN WrappedBy("ollama", <<"Ollama request failed with status ", ToString(o.status), ": ",
                                o.body.text>>)
    ELSE IF ~o.body.json THEN WrappedBy("ollama", JsonDecodeError)
    ELSE Returned(IF o.body.shape = "completion" THEN o.body.text ELSE "")

\* OpenAIClient.generate once the response is in
OpenAIHandles(o) ==
    IF ~o.body.json THEN WrappedBy("openai", JsonDecodeError)
    ELSE IF o.status # 200
    THEN WrappedBy("openai", <<"OpenAI API error: ", ErrorMessageOf(o.body)>>)
    ELSE IF o.body.shape # "completion" THEN WrappedBy("openai", <<"'choices'">>)
    ELSE Returned(o.body.text)

\* AnthropicClient.generate once the response is in
AnthropicHandles(o) ==
    IF ~o.body.json THEN WrappedBy("anthropic", JsonDecodeError)
    ELSE IF o.status # 200
    THEN WrappedBy("anthropic", <<"Anthropic API error: ", ErrorMessageOf(o.body)>>)
    ELSE Returned(IF o.body.shape = "completion" THEN o.body.text ELSE "")

\* how generate ends for what the HTTP layer handed back
GenerateEnds(provider, o) ==
    IF o.kind = "timeout"
    THEN Raised("ValueError",
                <<CASE provider = "ollama" -> "Ollama request timed out"
                    [] provider = "openai" -> "OpenAI request timed out"
                    [] provider = "anthropic" -> "Anthropic request timed out">>)
    ELSE IF o.kind = "transport"
    THEN IF provider = "ollama"
         THEN Raised("ValueError", <<"Failed to connect to Ollama: ", o.text>>)
         ELSE WrappedBy(provider, <<o.text>>)
    ELSE CASE provider = "ollama" -> OllamaHandles(o)
           [] provider = "openai" -> OpenAIHandles(o)
           [] provider = "anthropic" -> AnthropicHandles(o)

\* generate is called: the images are validated and, if they are in order, the one
\* POST of the call is sent
GenerateCall(provider, imagesValid) ==
    /\ call = NoCall
    /\ call' = IF imagesValid
               THEN [op |-> "generate", provider |-> provider, pc |-> "awaiting",
                     requests |-> 1, outcome |-> NoCall, result |-> NoCall]
               ELSE [op |-> "generate", provider |-> provider, pc |-> "done",
                     requests |-> 0, outcome |-> NoCall,
                     result |-> Raised("ValueError", <<"Image base64 data is required">>)]
    /\ UNCHANGED <<files, tasks, nextId, uploaded, debug, req, resp>>

\* the POST ends and generate returns or raises
GenerateAnswered(o) ==
    /\ call.op = "generate" /\ call.pc = "awaiting"
    /\ call' = [call EXCEPT !.pc = "done", !.outcome = o,
                            !.result = GenerateEnds(call.provider, o)]
    /\ UNCHANGED <<files, tasks, nextId, uploaded, debug, req, resp>>

NextClient ==
    \/ \E provider \in Providers, imagesValid \in BOOLEAN :
          GenerateCall(provider, imagesValid)
    \/ \E o \in HttpOutcomes : GenerateAnswered(o)

SpecClient == Init /\ [][NextClient]_vars

----------------------------------------------------------------------------
(* Local daemon: models/ollama_client.py is_available *)

\* a model name is its base, or its base, a colon and a tag
Untagged(base) == <<base>>
Tagged(base, tag) == <<base, ":", tag>>

\* name.split(":")[0]
SplitColonFirst(name) ==
    LET at == {i \in 1..Len(name) : name[i] = ":"}
    IN  IF at = {} THEN name
        ELSE SubSeq(name, 1, (CHOOSE i \in at : \A j \in at : i <= j) - 1)

\* the names the daemon lists (it lists every model under its tag)
InstalledNames ==
    {Tagged("llava", "latest"), Tagged("llava", "13b"), Tagged("bakllava", "latest"),
     Tagged("mistral", "latest")}

\* the values of self.model_name
ConfiguredNames ==
    {Untagged("llava"), Tagged("llava", "13b"), Tagged("mistral", "latest"),
     Untagged("cogvlm")}

\* what GET /api/tags comes to: the list, a status other than 200, a body that is
\* not JSON, or no answer
TagsOutcomes ==
    {[kind |-> "listed", models |-> ms] : ms \in SUBSET InstalledNames}
    \cup {[kind |-> k, models |-> {}] : k \in {"bad status", "not json", "no answer"}}

\* OllamaClient.is_available
is_available(model_name, tags) ==
    IF tags.kind # "listed" THEN FALSE
    ELSE LET available_models == {SplitColonFirst(m) : m \in tags.models}
         IN  model_name \in available_models

\* one availability check
IsAvailable(model_name, tags) ==
    /\ call' = [op |-> "is_available", model_name |-> model_name, tags |-> tags,
                result |-> is_available(model_name, tags)]
    /\ UNCHANGED <<files, tasks, nextId, uploaded, debug, req, resp>>

NextAvailable ==
    /\ call = NoCall
    /\ \E model_name \in ConfiguredNames, tags \in TagsOutcomes :
          IsAvailable(model_name, tags)

SpecAvailable == Init /\ [][NextAvailable]_vars

----------------------------------------------------------------------------
(* Startup: utils/validators.py validate_environment, main.py lifespan *)

\* the environment: the value of each variable, "" when it is not set
Environments ==
    [LLM_PROVIDER        : {"", "ollama", "OpenAI", "anthropic", "azure"},
     MAX_IMAGE_SIZE_MB   : {"", "10", "ten"},
     ALLOWED_IMAGE_TYPES : {"", "png,jpg,jpeg,webp"},
     OLLAMA_BASE_URL     : {"", "http://localhost:11434"},
     OLLAMA_MODEL        : {"", "llava"},
     OPENAI_API_KEY      : {"", "sk-key"},
     ANTHROPIC_API_KEY   : {"", "sk-ant-key"}]

\* validate_environment: "ok", or the ValueError it raises
validate_environment(env) ==
    IF env.LLM_PROVIDER = "" \/ env.MAX_IMAGE_SIZE_MB = "" \/ env.ALLOWED_IMAGE_TYPES = ""
    THEN "Missing required environment variables"
    ELSE LET llm_provider == LowerWord(env.LLM_PROVIDER)
         IN  IF llm_provider = "ollama"
             THEN IF env.OLLAMA_BASE_URL = "" THEN "OLLAMA_BASE_URL is required"
                  ELSE IF env.OLLAMA_MODEL = "" THEN "OLLAMA_MODEL is required"
                  ELSE "ok"
             ELSE IF llm_provider = "openai"
             THEN IF env.OPENAI_API_KEY = "" THEN "OPENAI_API_KEY is required" ELSE "ok"
             ELSE IF llm_provider = "anthropic"
             THEN IF env.ANTHROPIC_API_KEY = "" THEN "ANTHROPIC_API_KEY is required"
                  ELSE "ok"
             ELSE "Invalid LLM_PROVIDER"

\* int(value) returns for a string of digits and raises ValueError otherwise
IntParses(value) == value \in {"10"}

\* lifespan: the service starts serving only when validate_environment returns
Startup(env) ==
    /\ call = NoCall
    /\ call' = [op |-> "startup", env |-> env,
                state |-> IF validate_environment(env) = "ok" THEN "serving" ELSE "failed",
                error |-> validate_environment(env)]
    /\ UNCHANGED <<files, tasks, nextId, uploaded, debug, req, resp>>

\* the first upload is served: validate_image_file reads the size ceiling with
\* int(os.getenv("MAX_IMAGE_SIZE_MB", "10"))
ServeFirstUpload ==
    /\ call.op = "startup" /\ call.state = "serving"
    /\ call' = IF IntParses(call.env.MAX_IMAGE_SIZE_MB)
               THEN [call EXCEPT !.state = "served"]
               ELSE [call EXCEPT !.state = "request failed",
                                 !.error = "invalid literal for int()"]
    /\ UNCHANGED <<files, tasks, nextId, uploaded, debug, req, resp>>

NextStartup ==
    \/ \E env \in Environments : Startup(env)
    \/ ServeFirstUpload

SpecStartup == Init /\ [][NextStartup]_vars

----------------------------------------------------------------------------
(* Prompt builder: services/prompt_manager.py *)

\* str.upper on the format names used here
UpperWord(w) ==
    CASE w = "terraform" -> "TERRAFORM" [] w = "cloudformation" -> "CLOUDFORMATION"
      [] w = "pulumi" -> "PULUMI"       [] OTHER -> w

PromptReturned(prompt) == [kind |-> "returned", type |-> "str", prompt |-> prompt]
PromptRaised(msg) == [kind |-> "raised", type |-> "ValueError", prompt |-> msg]

\* get_architecture_prompt: the base template of the format, then the additional
\* requirements when there are any
get_architecture_prompt(output_format, additional_context) ==
    LET ctx == IF additional_context # <<>>
               THEN <<"Additional Requirements:">> \o additional_context ELSE <<>>
    IN  IF LowerWord(output_format) = "terraform"
        THEN PromptReturned(<<"terraform_base">> \o ctx)
        ELSE IF LowerWord(output_format) = "cloudformation"
        THEN PromptReturned(<<"cloudformation_base">> \o ctx)
        ELSE PromptRaised(<<"Unsupported output format: ", output_format>>)

\* create_refinement_prompt: one f-string around the code, the feedback and the
\* upper-cased format
create_refinement_prompt(original_code, feedback, output_format) ==
    PromptReturned(<<"Please refine the following ", UpperWord(output_format),
                     " code based on the feedback provided.", "Original Code:", Fence>>
                   \o original_code \o <<Fence, "Feedback:">> \o feedback
                   \o <<"Generate an improved version", "Output the refined code">>)

\* create_conversion_prompt: one f-string around the code and the two formats
create_conversion_prompt(source_code, source_format, target_format) ==
    PromptReturned(<<"Convert the following ", UpperWord(source_format), " code to ",
                     UpperWord(target_format), "Source ", UpperWord(source_format),
                     " Code:", Fence>>
                   \o source_code
                   \o <<Fence, "Requirements:", "follows ", target_format, " best practices",
                        "Output the converted code">>)

PromptFormats == {"terraform", "cloudformation", "TERRAFORM", "pulumi", ""}
PromptCodes == {<<>>, <<"resource">>, <<"Resources:">>}
PromptTexts == {<<>>, <<"use", "tags">>}

GetArchitecturePrompt(output_format, additional_context) ==
    /\ call' = [op |-> "get_architecture_prompt", format |-> output_format,
                out |-> get_architecture_prompt(output_format, additional_context)]
    /\ UNCHANGED <<files, tasks, nextId, uploaded, debug, req, resp>>

CreateRefinementPrompt(original_code, feedback, output_format) ==
    /\ call' = [op |-> "create_refinement_prompt", format |-> output_format,
                out |-> create_refinement_prompt(original_code, feedback, output_format)]
    /\ UNCHANGED <<files, tasks, nextId, uploaded, debug, req, resp>>

CreateConversionPrompt(source_code, source_format, target_format) ==
    /\ call' = [op |-> "create_conversion_prompt", format |-> target_format,
                out |-> create_conversion_prompt(source_code, source_format,
                                                 target_format)]
    /\ UNCHANGED <<files, tasks, nextId, uploaded, debug, req, resp>>

NextPrompt ==
    /\ call = NoCall
    /\ \/ \E f \in PromptFormats, c \in PromptTexts : GetArchitecturePrompt(f, c)
       \/ \E code \in PromptCodes, t \in PromptTexts, f \in PromptFormats :
              CreateRefinementPrompt(code, t, f)
       \/ \E code \in PromptCodes, sf \in PromptFormats, tf \in PromptFormats :
              CreateConversionPrompt(code, sf, tf)

SpecPrompt == Init /\ [][NextPrompt]_vars

----------------------------------------------------------------------------
(* Post-processing: services/iac_generator.py _post_process_code and its formatters *)

\* str.split("\n"): the lines of a text, never an empty list
RECURSIVE SplitLines(_)
SplitLines(text) ==
    LET at == {i \in 1..Len(text) : text[i] = NL}
    IN  IF at = {} THEN <<text>>
        ELSE LET i == Min(at)
             IN  <<SubSeq(text, 1, i - 1)>> \o SplitLines(SubSeq(text, i + 1, Len(text)))

\* "\n".join(lines)
RECURSIVE JoinLines(_)
JoinLines(lines) ==
    IF lines = <<>> THEN <<>>
    ELSE IF Len(lines) = 1 THEN lines[1]
    ELSE lines[1] \o <<NL>> \o JoinLines(Tail(lines))

\* "  " * indent_level
RECURSIVE Indent(_)
Indent(indent_level) ==
    IF indent_level = 0 THEN <<>> ELSE <<Space, Space>> \o Indent(indent_level - 1)

\* the loop of _format_terraform_code over lines[i..]: the formatted lines
RECURSIVE FormatTerraformFrom(_, _, _)
FormatTerraformFrom(lines, i, indent_level) ==
    IF i > Len(lines) THEN <<>>
    ELSE LET stripped == Strip(lines[i])
             level    == IF stripped # <<>> /\ Head(stripped) = "}"
                         THEN (IF indent_level > 0 THEN indent_level - 1 ELSE 0)
                         ELSE indent_level
             emitted  == IF stripped # <<>> THEN Indent(level) \o stripped ELSE <<>>
             after    == IF stripped # <<>> /\ stripped[Len(stripped)] = "{"
                         THEN level + 1 ELSE level
         IN  <<emitted>> \o FormatTerraformFrom(lines, i + 1, after)

\* _format_terraform_code leaving the empty lines out
_format_terraform_code_no_blank(code) ==
    JoinLines(SelectSeq(FormatTerraformFrom(SplitLines(code), 1, 0),
                        LAMBDA line : line # <<>>))

_format_terraform_code(code) == JoinLines(FormatTerraformFrom(SplitLines(code), 1, 0))

\* code.replace("\r\n", "\n")
RECURSIVE ReplaceCRLF(_)
ReplaceCRLF(text) ==
    IF Len(text) < 2 THEN text
    ELSE IF text[1] = CR /\ text[2] = NL THEN ReplaceCRLF(Tail(text))
    ELSE <<text[1]>> \o ReplaceCRLF(Tail(text))

_format_cloudformation_code(code) == Strip(ReplaceCRLF(code))

\* the markdown clean-up of _post_process_code: when the stripped code starts with a
\* fence and has more than two lines, its first and its last line go
StripFence(code) ==
    LET stripped == Strip(code)
        lines    == SplitLines(stripped)
    IN  IF stripped # <<>> /\ Head(stripped) = Fence /\ Len(lines) > 2
        THEN JoinLines(SubSeq(lines, 2, Len(lines) - 1))
        ELSE stripped

_post_process_code(code, output_format) ==
    IF code = <<>> THEN <<>>
    ELSE IF output_format = "terraform" THEN _format_terraform_code(StripFence(code))
    ELSE IF output_format = "cloudformation"
    THEN _format_cloudformation_code(StripFence(code))
    ELSE StripFence(code)

\* the lines a generated code is made of
PostLines ==
    {<<>>, <<Fence>>, <<Fence, "hcl">>, <<"resource", Space, "{">>, <<Space, "a">>,
     <<"}">>, <<"a", CR>>}

PostInputs == {JoinLines(ls) : ls \in SeqsUpTo(PostLines, MaxPostLines)}

PostProcess(code, output_format) ==
    /\ call' = [op |-> "_post_process_code", code |-> code, format |-> output_format,
                out |-> _post_process_code(code, output_format)]
    /\ UNCHANGED <<files, tasks, nextId, uploaded, debug, req, resp>>

NextPost ==
    /\ call = NoCall
    /\ \E code \in PostInputs, fmt \in {"terraform", "cloudformation"} :
          PostProcess(code, fmt)

SpecPost == Init /\ [][NextPost]_vars

----------------------------------------------------------------------------
(* Re-indentation of HCL: IaCGenerator._format_terraform_code (the pass the
   pipeline applies) and CodeFormatter.format_terraform (utils/formatters.py) *)

\* indent_level of _format_terraform_code after the first i lines
RECURSIVE IndentLevelAfter(_, _)
IndentLevelAfter(lines, i) ==
    IF i = 0 THEN 0
    ELSE LET stripped     == Strip(lines[i])
             indent_level == IndentLevelAfter(lines, i - 1)
             level        == IF stripped # <<>> /\ Head(stripped) = "}"
                             THEN (IF indent_level > 0 THEN indent_level - 1 ELSE 0)
                             ELSE indent_level
         IN  IF stripped # <<>> /\ stripped[Len(stripped)] = "{" THEN level + 1 ELSE level

\* the tokens \w+ matches
WordTokens == {"EOF", "a", "b", "resource"}
NoMarker == ""

\* re.search(r'<<(\w+)', line): the word after the first << that has one, or NoMarker
HeredocMarkerIn(line) ==
    LET at == {i \in 1..(Len(line) - 1) : line[i] = "<<" /\ line[i + 1] \in WordTokens}
    IN  IF at = {} THEN NoMarker ELSE line[Min(at) + 1]

\* heredoc_marker of format_terraform after the first i lines (NoMarker: not in_heredoc)
RECURSIVE HeredocAfter(_, _)
HeredocAfter(lines, i) ==
    IF i = 0 THEN NoMarker
    ELSE LET marker == HeredocAfter(lines, i - 1)
         IN  IF marker = NoMarker THEN HeredocMarkerIn(lines[i])
             ELSE IF Strip(lines[i]) = <<marker>> THEN NoMarker
             ELSE marker

\* the loop of format_terraform over lines[i..]
RECURSIVE FormatHclFrom(_, _, _)
FormatHclFrom(lines, i, indent_level) ==
    IF i > Len(lines) THEN <<>>
    ELSE LET stripped == Strip(lines[i])
             marker   == HeredocAfter(lines, i - 1)
         IN  IF marker = NoMarker /\ HeredocMarkerIn(lines[i]) # NoMarker
             THEN <<Indent(indent_level) \o stripped>>
                      \o FormatHclFrom(lines, i + 1, indent_level)
             ELSE IF marker # NoMarker
             THEN <<lines[i]>> \o FormatHclFrom(lines, i + 1, indent_level)
             ELSE IF stripped = <<>>
             THEN <<stripped>> \o FormatHclFrom(lines, i + 1, indent_level)
             ELSE LET level == IF Head(stripped) \in {"}", "]"}
                               THEN (IF indent_level > 0 THEN indent_level - 1 ELSE 0)
                               ELSE indent_level
                      after == IF stripped[Len(stripped)] \in {"{", "["}
                               THEN level + 1 ELSE level
                  IN  <<Indent(level) \o stripped>> \o FormatHclFrom(lines, i + 1, after)

format_terraform(code) == JoinLines(FormatHclFrom(SplitLines(code), 1, 0))

\* the lines of an HCL text with a heredoc in it
FormatLines ==
    {<<>>, <<"a", Space, "<<", "EOF">>, <<Space, Space, "b", Space, "{">>, <<"EOF">>,
     <<"resource", Space, "{">>, <<"}">>}

FormatInputs == {JoinLines(ls) : ls \in SeqsUpTo(FormatLines, MaxFormatLines)}

\* the pass of the pipeline (_post_process_code, output_format "terraform")
FormatTerraformCode(code) ==
    /\ call' = [op |-> "_format_terraform_code", code |-> code,
                out |-> _format_terraform_code(code)]
    /\ UNCHANGED <<files, tasks, nextId, uploaded, debug, req, resp>>

\* the pass of CodeFormatter
FormatTerraform(code) ==
    /\ call' = [op |-> "format_terraform", code |-> code, out |-> format_terraform(code)]
    /\ UNCHANGED <<files, tasks, nextId, uploaded, debug, req, resp>>

NextFormat ==
    /\ call = NoCall
    /\ \/ \E code \in FormatInputs : FormatTerraformCode(code)
       \/ \E code \in FormatInputs : FormatTerraform(code)

SpecFormat == Init /\ [][NextFormat]_vars

----------------------------------------------------------------------------
(* Validation and refinement: services/iac_generator.py generate_from_image from
   the first answer on, and _refine_output *)

None == <<"<None>">>

FirstResponses == {Concat(ss) : ss \in SeqsUpTo(Segments \cup {<<"resource">>},
                                               MaxFirstSegments)}

\* what the refinement call may answer
RefinedAnswers ==
    {<<>>, <<"resource">>, <<"EC2", Space, "x">>,
     <<"x", Fence, "hcl", NL, "resource", Fence, "S3", Space, "EC2">>,
     <<Fence, NL, "a", Fence>>}

\* the end of generate_from_image: the explanation is dropped unless asked for, the
\* code is post-processed
Finished(result, include_explanation, output_format) ==
    [result EXCEPT !.explanation = IF include_explanation THEN @ ELSE None,
                   !.code = _post_process_code(@, output_format)]

\* the first generate call has answered: the answer is parsed and validated, and an
\* answer failing validation leads to _refine_output, which builds the refinement
\* prompt from the parsed code and the validator's message and calls generate again
FirstAnswered(response, output_format, include_explanation) ==
    /\ LET result == parse_architecture_response(response, output_format)
           v      == validate_llm_response(response, output_format)
           base   == [op |-> "generate_from_image", format |-> output_format,
                      include_explanation |-> include_explanation,
                      first |-> response,
                      initial_result |-> result, feedback |-> v.msg, refined |-> <<>>,
                      gens |-> 1]
       IN  call' =
             IF v.kind = "raise"
             THEN base @@ [pc |-> "raised", prompt |-> <<>>, result |-> result]
             ELSE IF v.kind = "fail"
             THEN base @@ [pc |-> "refining",
                           prompt |-> create_refinement_prompt(result.code, <<v.msg>>,
                                                               output_format).prompt,
                           result |-> result]
             ELSE base @@ [pc |-> "done", prompt |-> <<>>,
                           result |-> Finished(result, include_explanation,
                                               output_format)]
    /\ UNCHANGED <<files, tasks, nextId, uploaded, debug, req, resp>>

\* RefinedAnswered with the refined parse returned as it is
RefinedAnswered_unmerged(response) ==
    /\ call.op = "generate_from_image" /\ call.pc = "refining"
    /\ call' = [call EXCEPT !.pc = "done", !.refined = response, !.gens = 2,
                            !.result = Finished(parse_architecture_response(response,
                                                                            call.format),
                                                call.include_explanation, call.format)]
    /\ UNCHANGED <<files, tasks, nextId, uploaded, debug, req, resp>>

\* the refinement call has answered: its parse replaces the first result, except
\* for detected_resources, which is taken from the first result
RefinedAnswered(response) ==
    /\ call.op = "generate_from_image" /\ call.pc = "refining"
    /\ LET refined_result ==
               [parse_architecture_response(response, call.format)
                   EXCEPT !.detected_resources = call.initial_result.detected_resources]
       IN  call' = [call EXCEPT !.pc = "done", !.refined = response, !.gens = 2,
                                !.result = Finished(refined_result,
                                                    call.include_explanation, call.format)]
    /\ UNCHANGED <<files, tasks, nextId, uploaded, debug, req, resp>>

NextRefine ==
    \/ /\ call = NoCall
       /\ \E response \in FirstResponses, fmt \in ValidatorFormats, e \in BOOLEAN :
              FirstAnswered(response, fmt, e)
    \/ \E response \in RefinedAnswers : RefinedAnswered(response)

SpecRefine == Init /\ [][NextRefine]_vars

----------------------------------------------------------------------------
(* Resizing: services/image_processor.py _resize_image.  Its arithmetic is in
   Python floats (IEEE 754 binary64): the division max_dimension / width is rounded
   to 53 significant bits, the product with the other side is rounded again, and
   int() then drops the fraction.  Numbers of that size are kept as sequences of
   bits, most significant first. *)

processor_max_dimension == 2048
MantissaBits == 53
QuotientBytes == 8

\* the bits of a natural number, none for 0
RECURSIVE Bin(_)
Bin(n) == IF n = 0 THEN <<>> ELSE Bin(n \div 2) \o <<n % 2>>

\* the natural number written by a sequence of bits
RECURSIVE BitsToInt(_)
BitsToInt(bits) ==
    IF bits = <<>> THEN 0
    ELSE 2 * BitsToInt(SubSeq(bits, 1, Len(bits) - 1)) + bits[Len(bits)]

\* the long operations go eight bits at a time
Byte == 256
ByteBits == 8

\* a number below Byte in ByteBits bits
ToByte(n) == [i \in 1..ByteBits |-> (n \div (2 ^ (ByteBits - i))) % 2]

\* the first 8 * k bits of the fraction rem / d (rem < d), by long division
RECURSIVE FracBits(_, _, _)
FracBits(rem, d, k) ==
    IF k = 0 THEN <<>>
    ELSE ToByte((rem * Byte) \div d) \o FracBits((rem * Byte) % d, d, k - 1)

\* what is left of rem / d after those bits
RECURSIVE RemAfter(_, _, _)
RemAfter(rem, d, k) == IF k = 0 THEN rem ELSE RemAfter((rem * Byte) % d, d, k - 1)

\* bits plus one in the last place; all ones become a one and zeros, one bit longer
Increment(bits) ==
    LET zeros == {i \in 1..Len(bits) : bits[i] = 0}
    IN  IF zeros = {} THEN <<1>> \o [i \in 1..Len(bits) |-> 0]
        ELSE LET j == CHOOSE i \in zeros : \A k \in zeros : k <= i
             IN  [i \in 1..Len(bits) |-> IF i < j THEN bits[i] ELSE IF i = j THEN 1 ELSE 0]

LeadingZeros(bits) ==
    LET ones == {i \in 1..Len(bits) : bits[i] = 1}
    IN  IF ones = {} THEN Len(bits) ELSE Min(ones) - 1

\* a float: MantissaBits bits, the first one a 1, of which `point` stand before the
\* binary point.  RoundToFloat rounds a longer string of bits (inexact: bits were
\* already dropped behind it) to the nearest float, ties to the even one.
RoundToFloat(allBits, allPoint, inexact) ==
    LET z      == LeadingZeros(allBits)
        bits   == SubSeq(allBits, z + 1, Len(allBits))
        point  == allPoint - z
        kept   == SubSeq(bits \o [i \in 1..MantissaBits |-> 0], 1, MantissaBits)
        guard  == IF Len(bits) > MantissaBits THEN bits[MantissaBits + 1] ELSE 0
        sticky == inexact \/ \E i \in (MantissaBits + 2)..Len(bits) : bits[i] = 1
        up     == guard = 1 /\ (sticky \/ kept[MantissaBits] = 1)
        inc    == Increment(kept)
    IN  IF ~up THEN [bits |-> kept, point |-> point]
        ELSE IF Len(inc) > MantissaBits
        THEN [bits |-> SubSeq(inc, 1, MantissaBits), point |-> point + 1]
        ELSE [bits |-> inc, point |-> point]

\* n / d in floats, for naturals n and d > 0 with n / d >= 2^-10
FloatDiv(n, d) ==
    LET whole == Bin(n \div d)
    IN  RoundToFloat(whole \o FracBits(n % d, d, QuotientBytes), Len(whole),
                     RemAfter(n % d, d, QuotientBytes) # 0)

\* the bits of bits * k for a natural k, by the school method from the last byte
\* on (Len(bits) a multiple of ByteBits)
RECURSIVE TimesSmall(_, _, _)
TimesSmall(bits, k, carry) ==
    IF bits = <<>> THEN Bin(carry)
    ELSE LET n == Len(bits)
             t == BitsToInt(SubSeq(bits, n - ByteBits + 1, n)) * k + carry
         IN  TimesSmall(SubSeq(bits, 1, n - ByteBits), k, t \div Byte) \o ToByte(t % Byte)

\* k * x in floats, for a natural k > 0 and a float x
FloatTimes(k, x) ==
    LET pad     == (ByteBits - (MantissaBits % ByteBits)) % ByteBits
        product == TimesSmall([i \in 1..pad |-> 0] \o x.bits, k, 0)
    IN  RoundToFloat(product, x.point + Len(product) - MantissaBits, FALSE)

\* int(x) for a float x >= 0
FloatToInt(x) ==
    IF x.point <= 0 THEN 0
    ELSE BitsToInt(SubSeq(x.bits \o [i \in 1..x.point |-> 0], 1, x.point))

\* _resize_image on an image of size (width, height): the size of what it returns
_resize_image(width, height) ==
    IF width <= processor_max_dimension /\ height <= processor_max_dimension
    THEN <<width, height>>
    ELSE IF width > height
    THEN <<processor_max_dimension,
           FloatToInt(FloatTimes(height, FloatDiv(processor_max_dimension, width)))>>
    ELSE <<FloatToInt(FloatTimes(width, FloatDiv(processor_max_dimension, height))),
           processor_max_dimension>>

\* the sides of the images resized: the two ends of what validate_image_file lets
\* through, values around the ceiling of the processor and values between
Sides == {100, 103, 161, 375, 1024, 2047, 2048, 2049, 2576, 3000, 3296, 4095, 4096}

ResizeImage(width, height) ==
    /\ call' = [op |-> "_resize_image", size |-> <<width, height>>,
                out |-> _resize_image(width, height)]
    /\ UNCHANGED <<files, tasks, nextId, uploaded, debug, req, resp>>

NextResize ==
    /\ call = NoCall
    /\ \E width \in Sides, height \in Sides : ResizeImage(width, height)

SpecResize == Init /\ [][NextResize]_vars

----------------------------------------------------------------------------
(* The lookups of the three routes: generate (up to the read of the file), preview
   and status, beside uploads and preprocessing *)

LookupIds == (1..MaxImages) \cup {StarId}

NextLookup ==
    \/ \E c \in PipelineContents, fn \in PipelineFilenames :
          nextId <= MaxImages /\ Upload(c, fn)
    \/ Background
    \/ \E i \in LookupIds : Status(i)
    \/ \E i \in LookupIds : Preview(i)
    \/ \E i \in LookupIds, fmt \in {"terraform"} : GenStart(i, fmt)
    \/ \E a \in BOOLEAN, s \in BOOLEAN : GenProbed(a, s)

SpecLookup == Init /\ [][NextLookup]_vars

----------------------------------------------------------------------------
(* Claims *)

RecognizedFormats == {"terraform", "cloudformation"}

\* C1: a generation request whose target format is neither "terraform" nor
\* "cloudformation" fails, and neither the availability probe nor a generate call
\* is issued for it.
C1_UnknownFormatFailsBeforeProvider ==
    (req.pc # "idle" /\ req.fmt \notin RecognizedFormats)
        => (req.pc = "done" /\ req.status >= 400 /\ req.probes = 0 /\ req.gens = 0)

\* the image exists, so it is the format check that turned the request down
C1_Witness ==
    /\ req.pc = "done" /\ req.fmt = "pulumi" /\ req.path # NoPath
    /\ req.status = 400 /\ req.probes = 0

\* C2: when validation of the first response does not succeed, the request does not
\* fail for that reason and exactly one refinement call is issued; when it succeeds
\* no refinement call is issued; never more than two generate calls per request.
C2_InvalidFirstResponseIsRefinedOnce ==
    /\ req.gens <= 2
    /\ req.validation = "pass" => req.gens = 1
    /\ req.validation \in {"fail", "raise"}
          => (req.gens = 2 /\ req.fault.class # "internal")

HasFence(text) == Fence \in Range(text)
HasTerraformWord(text) == Range(text) \cap {"resource", "Resources:"} # {}
HasCloudFormationWord(text) ==
    Range(text) \cap {"AWSTemplateFormatVersion:", "Resources:"} # {}

C4_SentImageIsOriginal ==
    req.gens > 0 => req.sent.kind = "original"

\* C5: the prefix lookup of an uploaded identifier matches exactly one stored file,
\* also once the processed variant has been written.
C5_LookupMatchesOneFile ==
    \A u \in uploaded : Cardinality(Glob(u.id)) = 1

\* C6: the processed copy is written to a path other than the original's, and the
\* original keeps its bytes whether preprocessing succeeds or fails.
C6_OriginalUntouched ==
    \A u \in uploaded :
        /\ PathOf(u.id, ProcessedName) # PathOf(u.id, u.name)
        /\ Exists(PathOf(u.id, u.name))
        /\ Read(PathOf(u.id, u.name)).kind = "original"

\* the uploads within every bound: size at most the ceiling, a filename with an
\* allowed extension, decodable, both dimensions in [100, 4096]
WithinBounds(c, fn) ==
    /\ c.size <= 10 * 1024 * 1024
    /\ Len(fn) >= 4
    /\ SubSeq(fn, Len(fn) - 3, Len(fn)) \in {<<".","p","n","g">>, <<".","P","N","G">>}
    /\ c.decodable
    /\ c.width \in 100..4096 /\ c.height \in 100..4096

GoodUploads == {p \in Contents \X Filenames : WithinBounds(p[1], p[2])}
BadUploads == {p \in Contents \X Filenames : ~WithinBounds(p[1], p[2])}

\* the step answered 200 with a fresh identifier under which a file is now stored
UploadSucceeded ==
    /\ resp'.op = "upload" /\ resp'.status = 200 /\ resp'.image_id = nextId
    /\ \E f \in files' : f.path = resp'.served /\ f.path[1] = resp'.image_id
                          /\ f.data.kind = "original"
    /\ \E u \in uploaded' : u.id = resp'.image_id

\* the lookup of every identifier returned so far still finds a stored file
StillResolvable ==
    \A u \in uploaded : \E f \in files' : f.path[1] = u.id

\* C7: every upload within the bounds succeeds, stores the file and returns an
\* identifier, and the lookup of a returned identifier finds a stored file from
\* then on.
C7_ValidUploadSucceeds ==
    [][/\ UploadSucceeded \/ \A p \in GoodUploads : ~Upload(p[1], p[2])
       /\ StillResolvable]_vars

\* the step answered 400 with a reason and left the directory and the tasks alone
UploadRefused ==
    /\ resp'.op = "upload" /\ resp'.status = 400
    /\ resp'.detail # <<>> /\ resp'.detail # <<"ok">>
    /\ files' = files /\ tasks' = tasks

\* C8: every upload that violates a bound is rejected with a client fault and a
\* reason, the set of stored files is unchanged and no preprocessing is scheduled.
C8_InvalidUploadRejected ==
    [][UploadRefused \/ \A p \in BadUploads : ~Upload(p[1], p[2])]_vars

\* a rejection after an accepted upload: the stored file is still the only one
C8_Witness ==
    /\ resp.op = "upload" /\ resp.status = 400
    /\ Cardinality(files) = 1 /\ Cardinality(tasks) = 1

\* C9: when the probe reports the provider unavailable or a generate call fails,
\* /generate answers with a server fault (5xx), not a client fault.
C9_ProviderFaultIsServerFault ==
    (req.pc = "done" /\ req.fault.class \in {"unavailable", "provider"})
        => req.status >= 500

\* C10: an internal fault raised while the pipeline runs is answered with a server
\* fault whose detail does not contain the fault's own text.
C10_InternalFaultIsOpaque ==
    (req.pc = "done" /\ req.fault.class = "internal")
        => (req.status >= 500 /\ req.fault.text \notin Range(req.detail))

\* C11: for a response without any fence the parser returns the whole text as the
\* code, and the explanation equals the text.
C11_NoFenceWholeTextIsCode ==
    (call.op = "parse" /\ Fence \notin Range(call.input))
        => (call.result.code = call.input /\ call.result.explanation = call.input)

\* the fences of a text in order, and the blocks they delimit when paired off
FencesOf(text) == SelectSeq([i \in 1..Len(text) |-> i], LAMBDA i : text[i] = Fence)
BlocksOf(text) ==
    LET fs == FencesOf(text)
    IN  {<<fs[2 * k - 1], fs[2 * k]>> : k \in 1..(Len(fs) \div 2)}

\* the block opens with a fence, an optional one-word tag and a newline
ProperBlock(text, b) ==
    \/ b[1] + 1 < b[2] /\ text[b[1] + 1] = NL
    \/ b[1] + 2 < b[2] /\ text[b[1] + 1] \notin NonWord /\ text[b[1] + 2] = NL

\* every fence of the text opens or closes a proper block
WellFenced(text) ==
    /\ Len(FencesOf(text)) % 2 = 0
    /\ \A b \in BlocksOf(text) : ProperBlock(text, b)

BlockTag(text, b) == IF text[b[1] + 1] = NL THEN "" ELSE text[b[1] + 1]
BlockInterior(text, b) ==
    SubSeq(text, IF text[b[1] + 1] = NL THEN b[1] + 2 ELSE b[1] + 3, b[2] - 1)
KnownHints == {"hcl", "terraform", "yaml", "json"}
HintedBlocks(text) == {b \in BlocksOf(text) : BlockTag(text, b) \in KnownHints}
FirstBlockOf(text) == CHOOSE b \in BlocksOf(text) : \A c \in BlocksOf(text) : b[1] <= c[1]

\* C12: of several fenced blocks the parser extracts one tagged with a known hint,
\* wherever it stands among the others; only when no block carries a known hint
\* does it take the first block of the text (stated for a first block without a
\* tag, whose interior is not in question).
C12_HintedBlockPreferred ==
    (call.op = "parse" /\ WellFenced(call.input) /\ Cardinality(BlocksOf(call.input)) >= 2)
        => LET text == call.input
           IN  IF HintedBlocks(text) # {}
               THEN \E b \in HintedBlocks(text) :
                       call.result.code = Strip(BlockInterior(text, b))
               ELSE BlockTag(text, FirstBlockOf(text)) = ""
                       => call.result.code = Strip(BlockInterior(text, FirstBlockOf(text)))

\* the only block of the text, when it has exactly one
OnlyBlock(text) == CHOOSE b \in BlocksOf(text) : TRUE

\* C13: for a response with exactly one fenced block, tagged with a known hint, the
\* extracted code is the block's interior without its leading and trailing
\* whitespace, whatever prose stands before and after the block.
C13_SingleHintedBlockExtracted ==
    (/\ call.op = "parse" /\ WellFenced(call.input)
     /\ Cardinality(BlocksOf(call.input)) = 1
     /\ HintedBlocks(call.input) # {})
        => call.result.code = Strip(BlockInterior(call.input, OnlyBlock(call.input)))

\* prose on both sides and an interior wrapped in whitespace: the code is the bare "b"
C13_Witness ==
    /\ call.op = "parse"
    /\ call.input = <<"x", Fence, "hcl", NL, NL, "b", Space, NL, Fence, "S3">>
    /\ call.result.code = <<"b">>

\* C14: the detected resources are deduplicated and drawn from the enumeration: no
\* two entries are the same resource type under the case-insensitive matching that
\* found them, and every entry is one of the enumerated names in some casing.
C14_ResourcesDeduplicated ==
    call.op = "parse"
        => /\ \A a, b \in call.result.detected_resources :
                  LowerWord(a) = LowerWord(b) => a = b
           /\ \A a \in call.result.detected_resources :
                  \E n \in resource_names : LowerWord(n) = LowerWord(a)

\* C15: the HCL validator accepts the three-line resource block, and whenever the
\* numbers of opening and closing braces differ it fails with the brace reason,
\* whatever other check the input would fail as well.
C15_BraceImbalanceReportedFirst ==
    call.op = "validate_terraform_syntax"
        => /\ call.input = ResourceHeader \o <<"{">> \o AssignmentLines \o <<"}">>
                  => call.result.kind = "pass"
           /\ Cardinality({i \in 1..Len(call.input) : call.input[i] = "{"})
                 # Cardinality({i \in 1..Len(call.input) : call.input[i] = "}"})
                  => call.result = [kind |-> "fail", msg |-> "Unbalanced braces"]

\* an input without any block keyword and with an odd quote is refused for its braces
C15_Witness ==
    /\ call.op = "validate_terraform_syntax"
    /\ call.input = <<"{", Quote>>
    /\ call.result.msg = "Unbalanced braces"

HasVersionKey(doc) ==
    Range(doc) \cap {"AWSTemplateFormatVersion:", "AWSTemplateFormatVersion"} # {}
HasResourcesKey(doc) == "Resources:" \in Range(doc)

FirstWord(doc) ==
    LET at == {i \in 1..Len(doc) : doc[i] \notin {NL, Space}}
    IN  IF at = {} THEN "" ELSE doc[CHOOSE i \in at : \A j \in at : i <= j]

ProviderErrorText(o) == o.body.text

\* C17: one call of generate sends one HTTP request and never another (stated for
\* the calls that get as far as sending); on a timeout, a transport error or a
\* status other than success it raises the one failure type, returns no
\* LLMResponse, and the message carries the error text the provider sent.
C17_GenerateFailsOnceWithProviderText ==
    (call.op = "generate" /\ call.outcome # NoCall)
        => /\ call.requests = 1
           /\ (call.outcome.kind \in {"timeout", "transport"} \/ call.outcome.status # 200)
                 => /\ call.result.kind = "raised" /\ call.result.type = "ValueError"
                    /\ call.outcome.kind = "transport"
                          => call.outcome.text \in Range(call.result.msg)
                    /\ (call.outcome.kind = "response"
                           /\ ProviderErrorText(call.outcome) # "")
                          => ProviderErrorText(call.outcome) \in Range(call.result.msg)

\* the configured model is installed: a name with a tag is listed under that name
\* and tag, a name without a tag is listed under some tag
InstalledAs(model_name, models) ==
    \/ model_name \in models
    \/ Len(model_name) = 1 /\ \E m \in models : m[1] = model_name[1]

\* C18: the availability check answers true exactly when the models-list call
\* succeeds and the configured model is among the installed models, also for a
\* configured name that carries a tag and is installed under that name and tag.
C18_AvailableIffInstalled ==
    call.op = "is_available"
        => (call.result <=> (call.tags.kind = "listed"
                               /\ InstalledAs(call.model_name, call.tags.models)))

\* a configuration in which a required key is missing or holds an invalid value
InvalidEnvironment(env) ==
    \/ env.LLM_PROVIDER \notin {"ollama", "openai", "OpenAI", "anthropic"}
    \/ env.LLM_PROVIDER = "ollama" /\ (env.OLLAMA_BASE_URL = "" \/ env.OLLAMA_MODEL = "")
    \/ env.LLM_PROVIDER \in {"openai", "OpenAI"} /\ env.OPENAI_API_KEY = ""
    \/ env.LLM_PROVIDER = "anthropic" /\ env.ANTHROPIC_API_KEY = ""
    \/ env.MAX_IMAGE_SIZE_MB \notin {"10"}
    \/ env.ALLOWED_IMAGE_TYPES = ""

\* C19: with a configuration in which a required key is missing or invalid the
\* service never gets to serve: startup fails, and no request is the first to meet
\* the fault.
C19_InvalidConfigurationStopsStartup ==
    (call.op = "startup" /\ InvalidEnvironment(call.env)) => call.state = "failed"

PromptOperations ==
    {"get_architecture_prompt", "create_refinement_prompt", "create_conversion_prompt"}

RecognizedFormat(f) == f \in {"terraform", "cloudformation", "TERRAFORM"}

\* C20: each prompt operation that takes a target format raises an invalid-argument
\* error for a format that is not one of the two recognized ones, and returns a
\* prompt only for a recognized format.
C20_UnrecognizedFormatRefused ==
    call.op \in PromptOperations =>
        /\ ~RecognizedFormat(call.format) =>
               call.out.kind = "raised" /\ call.out.type = "ValueError"
        /\ call.out.kind = "returned" => RecognizedFormat(call.format)

\* a line that is a fence, with or without a language hint
IsFenceLine(line) == Strip(line) # <<>> /\ Head(Strip(line)) = Fence

FenceLinesOf(lines) == {i \in 1..Len(lines) : IsFenceLine(lines[i])}

\* C21: the fence stripping of the post-processor takes away the fence line at the
\* start and the fence line at the end of its input and nothing else: every other
\* line is still in the output (indentation aside), and the fence lines at the two
\* ends are not.
C21_OnlyEndFencesRemoved ==
    call.op = "_post_process_code" =>
        LET lines    == SplitLines(Strip(call.code))
            out      == SplitLines(call.out)
            ends     == {1, Len(lines)} \cap FenceLinesOf(lines)
        IN  /\ \A i \in 1..Len(lines) :
                   (i \notin ends /\ Strip(lines[i]) # <<>>) =>
                       \E j \in 1..Len(out) : Strip(out[j]) = Strip(lines[i])
            /\ Cardinality(FenceLinesOf(out)) =
                   Cardinality(FenceLinesOf(lines)) - Cardinality(ends)

\* the lines inside a heredoc: those after a <<MARKER line, up to the line equal to
\* MARKER
HeredocInterior(lines) ==
    {k \in 1..Len(lines) : /\ HeredocAfter(lines, k - 1) # NoMarker
                           /\ \E j \in k..Len(lines) : HeredocAfter(lines, j) = NoMarker}

\* C22: the re-indentation applied to generated terraform code emits every line
\* inside a heredoc unchanged, and its depth counter is after such a line what it
\* was before it.
C22_HeredocPassedThrough ==
    call.op = "_format_terraform_code" =>
        LET lines == SplitLines(call.code)
            out   == SplitLines(call.out)
        IN  \A k \in HeredocInterior(lines) :
               /\ out[k] = lines[k]
               /\ IndentLevelAfter(lines, k) = IndentLevelAfter(lines, k - 1)

\* sub occurs in text
Contains(text, sub) ==
    \E i \in 0..(Len(text) - Len(sub)) : SubSeq(text, i + 1, i + Len(sub)) = sub

\* what the first attempt gave: the code of its fenced block, or, when it fenced
\* nothing, its text
FirstOutput(response) ==
    IF Occurs(Fence, response) THEN ParseCode(response) ELSE Strip(response)

\* C23: whenever refinement is called, the prompt of the second call holds the
\* output of the first attempt and the reason the validator gave.
C23_RefinementPromptCarriesFirstOutput ==
    (call.op = "generate_from_image" /\ call.pc = "refining") =>
        /\ Contains(call.prompt, <<call.feedback>>)
        /\ Contains(call.prompt, FirstOutput(call.first))

\* C26: after a refinement the result has the code and the explanation of the
\* refined response and the detected resources of the first response: none that
\* only the refined response names, all that the first response names.
C26_RefinedResultKeepsFirstResources ==
    (call.op = "generate_from_image" /\ call.pc = "done" /\ call.gens = 2) =>
        /\ call.result.detected_resources = ParseResources(call.first)
        /\ call.result.code = _post_process_code(ParseCode(call.refined), call.format)
        /\ call.result.explanation \in {ParseExplanation(call.refined), None}
        /\ call.include_explanation =>
               call.result.explanation = ParseExplanation(call.refined)

C26_Witness ==
    /\ call.op = "generate_from_image" /\ call.pc = "done" /\ call.gens = 2
    /\ call.first = <<"S3">>
    /\ "EC2" \in ParseResources(call.refined)
    /\ call.result.detected_resources = {"S3"}
    /\ call.result.code = <<"resource">>

\* C24: an image with both sides within [100, 4096] comes out of the resize with its
\* longest side at most 2048 and both sides at least 1; within 2048 on both sides it
\* keeps its size, and otherwise its longest side becomes 2048 and the other side
\* floor(other * 2048 / longest).
C24_ResizeIsExactFloor ==
    call.op = "_resize_image" =>
        LET w       == call.size[1]
            h       == call.size[2]
            longest == IF w > h THEN w ELSE h
            other   == IF w > h THEN h ELSE w
            scaled  == (other * processor_max_dimension) \div longest
        IN  /\ call.out[1] <= processor_max_dimension
            /\ call.out[2] <= processor_max_dimension
            /\ call.out[1] >= 1 /\ call.out[2] >= 1
            /\ longest <= processor_max_dimension => call.out = call.size
            /\ longest > processor_max_dimension =>
                   call.out = IF w > h THEN <<processor_max_dimension, scaled>>
                              ELSE <<scaled, processor_max_dimension>>

\* C25: in generate_from_image the availability probe and the image-support check
\* come before every generate call: a request for which one of them answered false
\* fails without a generate call, and a generate call is issued only for a request
\* that was probed and for which both answered true.
C25_ProbesPrecedeGenerate ==
    /\ req.fault.class \in {"unavailable", "no_images"} =>
           req.gens = 0 /\ req.pc = "done" /\ req.status >= 400
    /\ req.gens > 0 =>
           req.probes = 1 /\ req.fault.class \notin {"unavailable", "no_images"}

C25_Witness ==
    req.fault.class = "no_images" /\ req.gens = 0 /\ req.probes = 1 /\ req.status = 400

\* the processed variant of an upload has been derived: preprocessing has written it
Derived(image_id) ==
    /\ Exists(PathOf(image_id, ProcessedName))
    /\ Read(PathOf(image_id, ProcessedName)).kind = "processed"

\* what a status request for the identifier would report now
Reported(image_id) ==
    IF Exists(PathOf(image_id, ProcessedName)) THEN "processed" ELSE "processing"

\* C27: however the background task and the status requests interleave, the status
\* of an uploaded identifier is "processed" exactly when preprocessing has derived
\* the processed variant and "processing" otherwise, and after "processed" it is
\* never "processing" again.
C27_StatusTracksPreprocessing ==
    [][/\ (resp' # resp /\ resp'.op = "status" /\ resp'.status = 200) =>
              (resp'.detail = <<"processed">> <=> Derived(resp'.image_id))
       /\ \A u \in uploaded :
              Reported(u.id) = "processed" => Reported(u.id)' = "processed"]_vars

IssuedIds == {u.id : u \in uploaded}

\* C29: a generate, preview or status request resolves only identifiers an upload
\* has returned: for any other identifier string, "*" included, the answer is
\* not-found and no stored file is read or served.
C29_OnlyIssuedIdentifiersResolve ==
    /\ (resp.op \in {"status", "preview"} /\ resp.image_id \notin IssuedIds) =>
           resp.status = 404 /\ resp.served = NoPath
    /\ (req.pc # "idle" /\ req.id \notin IssuedIds) =>
           req.status = 404 /\ req.path = NoPath /\ req.sent = NoData

\* C28: the re-indentation of terraform code is idempotent and keeps the number of
\* lines: applied to its own output it returns that output, for the pass of the
\* pipeline and for the one of CodeFormatter.
C28_ReindentationIdempotent ==
    /\ call.op = "_format_terraform_code" =>
           /\ _format_terraform_code(call.out) = call.out
           /\ Len(SplitLines(call.out)) = Len(SplitLines(call.code))
    /\ call.op = "format_terraform" =>
           /\ format_terraform(call.out) = call.out
           /\ Len(SplitLines(call.out)) = Len(SplitLines(call.code))

C28_Witness ==
    /\ call.op = "_format_terraform_code"
    /\ call.code = <<"resource", Space, "{", NL, NL, Space, Space, "b", Space, "{", NL, "}">>
    /\ call.out = <<"resource", Space, "{", NL, NL, Space, Space, "b", Space, "{", NL,
                    Space, Space, "}">>

\* the paths an upload request writes: its original and its processed copy
PathsWritten(u) == {PathOf(u.id, u.name), PathOf(u.id, ProcessedName)}

\* C30: the paths written for two upload requests, their originals and their
\* processed copies, are distinct across the two, also when both carry the same
\* filename: no request overwrites a file of another.
C30_UploadsWriteDistinctPaths ==
    \A u1 \in uploaded, u2 \in uploaded :
        u1 # u2 => PathsWritten(u1) \cap PathsWritten(u2) = {}

C30_Witness ==
    \E u1 \in uploaded, u2 \in uploaded :
        /\ u1.id # u2.id /\ u1.name = u2.name
        /\ Derived(u1.id) /\ Derived(u2.id)
        /\ \A p \in PathsWritten(u1) \cup PathsWritten(u2) : Exists(p)
        /\ Cardinality(files) = 4

====
